---- MODULE Spec2Model ----
(***************************************************************************)
(* The wheel store of the server (store.ts): one JSON document on disk,    *)
(* a lazily created data file, a promise queue that serialises the         *)
(* read-modify-write cycle of every mutation, unsynchronised reads, and    *)
(* the normalisers and the weighted selection the mutations use.           *)
(***************************************************************************)
EXTENDS Integers, Sequences, FiniteSets, TLC

\* ------------------------------------------------------------------ bounds
\* Mutations submitted to runSerial in one behaviour of Spec.
MaxOps == 2
\* Direct reads (getLists / getList) that wait for their answer at one time.
MaxReads == 1
\* File-system calls that end with an error in one behaviour of Spec.
MaxFaults == 1
\* The last instant of the clock.
MaxClock == 1
\* recordSpin calls submitted in one behaviour of SpecSpins.
MaxSpinOps == 22
\* In SpecWeight: the largest number given to normalizeWeight, and the
\* smallest with the sign changed.
MaxWeight == 6
\* Mutations submitted in one behaviour of SpecPayloads.
MaxPayloadOps == 2
\* In SpecDraw: the items of the list, the largest weight of an item, and the
\* recordSpin calls submitted in one behaviour.
MaxItems == 2
MaxItemWeight == 3
MaxDraws == 1
\* In SpecItems: the items of a payload.
MaxRawItems == 2

\* --------------------------------------------------------- program constants
MAX_SPIN_HISTORY == 20

\* ------------------------------------------------------------------ values
\* An optional value (T | undefined) is a sequence of length 0 or 1.
Undefined == << >>
Some(x) == << x >>
IsDefined(o) == Len(o) = 1
Get(o) == o[1]

\* Strings the normalisers look into are sequences of characters.
SP == " "
UntitledWheel == << "U", "n", "t", "i", "t", "l", "e", "d", " ", "w", "h", "e", "e", "l" >>

RECURSIVE TrimStart(_)
TrimStart(s) ==
  IF s = << >> THEN << >>
  ELSE IF Head(s) = SP THEN TrimStart(Tail(s)) ELSE s

RECURSIVE TrimEnd(_)
TrimEnd(s) ==
  IF s = << >> THEN << >>
  ELSE IF s[Len(s)] = SP THEN TrimEnd(SubSeq(s, 1, Len(s) - 1)) ELSE s

\* String.prototype.trim
Trim(s) == TrimEnd(TrimStart(s))

\* A number a payload can carry as a weight: a finite number counted in
\* quarters (q = 6 is 1.5, q = 1 is 0.25), or a non-finite one (NaN, Infinity,
\* -Infinity).
Finite(q) == [fin |-> TRUE, q |-> q]
NonFinite == [fin |-> FALSE, q |-> 0]

\* As if rounding were written Math.floor(x) + 1.
MathFloorPlusOne(q) == q \div 4 + 1

\* Math.round of q quarters: the nearest integer, a tie going up.
MathRound(q) == (q + 2) \div 4

Max(a, b) == IF a >= b THEN a ELSE b
Min(a, b) == IF a <= b THEN a ELSE b

\* ------------------------------------------------------------- normalisers
\* As if the rounded weight were returned without the clamp.
normalizeWeightUnclamped(weight) ==
  LET parsed == IF IsDefined(weight) THEN Get(weight) ELSE Finite(4)
  IN  IF ~parsed.fin THEN 1
      ELSE MathRound(parsed.q)

\* As if the weight were clamped to a minimum of 0, not of 1.
normalizeWeightNonNegative(weight) ==
  LET parsed == IF IsDefined(weight) THEN Get(weight) ELSE Finite(4)
  IN  IF ~parsed.fin THEN 1
      ELSE Max(0, MathRound(parsed.q))

\* weight is an optional number; the result is a number of whole units.
normalizeWeight(weight) ==
  LET parsed == IF IsDefined(weight) THEN Get(weight) ELSE Finite(4)
  IN  IF ~parsed.fin THEN 1
      ELSE Max(1, MathRound(parsed.q))

\* As if the label were tested before it is trimmed: only "" would be dropped.
RECURSIVE normalizeItemsFromUntrimmed(_, _, _)
normalizeItemsFromUntrimmed(items, acc, minted) ==
  IF items = << >> THEN [items |-> acc, minted |-> minted]
  ELSE LET item == Head(items)
           label == Trim(item.label)
       IN  IF item.label = << >>
             THEN normalizeItemsFromUntrimmed(Tail(items), acc, minted)
             ELSE LET fresh == ~IsDefined(item.id)
                      id == IF fresh THEN [minted |-> TRUE, n |-> minted + 1]
                                     ELSE Get(item.id)
                  IN  normalizeItemsFromUntrimmed(
                        Tail(items),
                        Append(acc, [id |-> id, label |-> label,
                                     weight |-> normalizeWeight(item.weight)]),
                        IF fresh THEN minted + 1 ELSE minted)

\* As if every item were given a new id, the one it came with ignored.
RECURSIVE normalizeItemsFromMinting(_, _, _)
normalizeItemsFromMinting(items, acc, minted) ==
  IF items = << >> THEN [items |-> acc, minted |-> minted]
  ELSE LET item == Head(items)
           label == Trim(item.label)
       IN  IF label = << >>
             THEN normalizeItemsFromMinting(Tail(items), acc, minted)
             ELSE normalizeItemsFromMinting(
                    Tail(items),
                    Append(acc, [id |-> [minted |-> TRUE, n |-> minted + 1],
                                 label |-> label,
                                 weight |-> normalizeWeight(item.weight)]),
                    minted + 1)

\* items: raw items [id: optional, label, weight: optional]; minted: the ids
\* nanoid() has handed out so far. The result is the items kept, in order,
\* and the count of ids minted.
RECURSIVE normalizeItemsFrom(_, _, _)
normalizeItemsFrom(items, acc, minted) ==
  IF items = << >> THEN [items |-> acc, minted |-> minted]
  ELSE LET item == Head(items)
           label == Trim(item.label)
       IN  IF label = << >>
             THEN normalizeItemsFrom(Tail(items), acc, minted)
             ELSE LET fresh == ~IsDefined(item.id)
                      id == IF fresh THEN [minted |-> TRUE, n |-> minted + 1]
                                     ELSE Get(item.id)
                  IN  normalizeItemsFrom(
                        Tail(items),
                        Append(acc, [id |-> id, label |-> label,
                                     weight |-> normalizeWeight(item.weight)]),
                        IF fresh THEN minted + 1 ELSE minted)

normalizeItems(items, minted) == normalizeItemsFrom(items, << >>, minted)

sanitizeName(name) ==
  LET trimmed == IF IsDefined(name) THEN Trim(Get(name)) ELSE << >>
  IN  IF Len(trimmed) > 0 THEN trimmed ELSE UntitledWheel

sanitizeDescription(description) ==
  IF ~IsDefined(description) THEN Undefined
  ELSE LET trimmed == Trim(Get(description))
       IN  IF Len(trimmed) > 0 THEN Some(trimmed) ELSE Undefined

\* ------------------------------------------------------------ the data file
\* What DATA_FILE holds: nothing (no such file), text that is not well-formed
\* JSON (an empty or cut-short file included), the well-formed JSON text "{}"
\* (an object without lists), or the JSON text of a Document.
Absent == [kind |-> "absent", lists |-> << >>]
Malformed == [kind |-> "malformed", lists |-> << >>]
EmptyObject == [kind |-> "object", lists |-> << >>]
DocFile(lists) == [kind |-> "doc", lists |-> lists]

\* JSON.stringify(data, null, 2) + '\n' of a DataFile.
JSONstringify(data) == DocFile(data.lists)

\* JSON.parse(content): a SyntaxError, or the value the text denotes
\* (hasLists: the value has a lists member).
JSONparse(content) ==
  CASE content.kind = "doc" -> [ok |-> TRUE, hasLists |-> TRUE, lists |-> content.lists]
    [] content.kind = "object" -> [ok |-> TRUE, hasLists |-> FALSE, lists |-> << >>]
    [] OTHER -> [ok |-> FALSE, hasLists |-> FALSE, lists |-> << >>]

\* readDataFile once fs.readFile has answered: with content, or, when there is
\* no file, with an error.
readDataFile(content) ==
  LET parsed == JSONparse(content)
  IN  IF content.kind = "absent" THEN [err |-> "ENOENT", data |-> parsed]
      ELSE IF parsed.ok THEN [err |-> "none", data |-> parsed]
      ELSE [err |-> "DATA_CORRUPT", data |-> parsed]

\* What the document is to a caller: a file not yet created is the empty store.
Document(content) == IF content.kind = "absent" THEN DocFile(<< >>) ELSE content

\* ------------------------------------------------------ results of a call
NoResult == [tag |-> "none"]
UndefinedResult == [tag |-> "undefined"]
BoolResult(b) == [tag |-> "bool", val |-> b]
ListResult(l) == [tag |-> "list", val |-> l]
ListsResult(ls) == [tag |-> "lists", val |-> ls]
SpinResult(s) == [tag |-> "spin", val |-> s]

\* How the synchronous part of a call that follows its read ends: it throws,
\* it returns without writing, or it hands a Document to writeDataFile.
Throw(e) == [err |-> e, write |-> FALSE, lists |-> << >>, res |-> NoResult]
Return(r) == [err |-> "none", write |-> FALSE, lists |-> << >>, res |-> r]
Write(lists, r) == [err |-> "none", write |-> TRUE, lists |-> lists, res |-> r]

\* Array.prototype.findIndex on list.id === id (0 stands for -1).
RECURSIVE findIndexFrom(_, _, _)
findIndexFrom(lists, id, i) ==
  IF i > Len(lists) THEN 0
  ELSE IF lists[i].id = id THEN i ELSE findIndexFrom(lists, id, i + 1)

findIndex(lists, id) == findIndexFrom(lists, id, 1)

\* Array.prototype.filter on list.id !== id.
RECURSIVE filterOut(_, _)
filterOut(lists, id) ==
  IF lists = << >> THEN << >>
  ELSE IF Head(lists).id = id THEN filterOut(Tail(lists), id)
       ELSE << Head(lists) >> \o filterOut(Tail(lists), id)

\* items.reduce((sum, item) => sum + item.weight, 0)
RECURSIVE totalWeight(_)
totalWeight(items) ==
  IF items = << >> THEN 0 ELSE Head(items).weight + totalWeight(Tail(items))

\* As if the loop compared with target <= running: a draw on a bucket's
\* boundary would select the item before it.
RECURSIVE selectFromInclusive(_, _, _, _)
selectFromInclusive(items, target, i, running) ==
  IF i > Len(items) THEN 0
  ELSE IF target <= running + items[i].weight THEN i
       ELSE selectFromInclusive(items, target, i + 1, running + items[i].weight)

\* The selection loop: the index of the first item whose running weight is
\* above target, 0 when the loop ends without selecting.
RECURSIVE selectFrom(_, _, _, _)
selectFrom(items, target, i, running) ==
  IF i > Len(items) THEN 0
  ELSE IF target < running + items[i].weight THEN i
       ELSE selectFrom(items, target, i + 1, running + items[i].weight)

selected(items, target) == selectFrom(items, target, 1, 0)

\* selected ?? list.items[list.items.length - 1]
chosen(items, target) ==
  IF selected(items, target) # 0 THEN items[selected(items, target)]
  ELSE items[Len(items)]

\* As if the history were never cut.
pushSpinUncut(spin, spins) == << spin >> \o spins

\* As if the new spin were put last and the cut kept the oldest entries.
pushSpinLast(spin, spins) ==
  SubSeq(spins \o << spin >>, 1, Min(Len(spins) + 1, MAX_SPIN_HISTORY))

\* [spin, ...list.spins].slice(0, MAX_SPIN_HISTORY)
pushSpin(spin, spins) ==
  SubSeq(<< spin >> \o spins, 1, Min(Len(spins) + 1, MAX_SPIN_HISTORY))

\* ------------------------------------------------------------ the mutations
\* An operation carries what its run drew from outside: prep (the list
\* createList builds before it reads), t (the instant it read the clock),
\* draw (randomInt's answer) and base (the ids nanoid had minted before it).

\* createList up to its read: now, and the list with its minted ids.
newList(payload, now, minted) ==
  [id |-> minted.list + 1,
   name |-> sanitizeName(payload.name),
   description |-> sanitizeDescription(payload.description),
   items |-> normalizeItems(IF IsDefined(payload.items) THEN Get(payload.items) ELSE << >>,
                            minted.item).items,
   spins |-> << >>,
   createdAt |-> now,
   updatedAt |-> now]

\* As if createList put the new list first (unshift).
createListFirst(op, data) ==
  IF ~data.hasLists THEN Throw("TypeError")
  ELSE Write(<< Get(op.prep) >> \o data.lists, ListResult(Get(op.prep)))

\* createList from data.lists.push(list) on.
createList(op, data) ==
  IF ~data.hasLists THEN Throw("TypeError")
  ELSE Write(Append(data.lists, Get(op.prep)), ListResult(Get(op.prep)))

\* As if an update of a list that is not there were an error.
updateListStrict(op, data) ==
  IF ~data.hasLists THEN Throw("TypeError")
  ELSE LET index == findIndex(data.lists, op.id)
       IN  IF index = 0 THEN Throw("NOT_FOUND")
           ELSE LET list == data.lists[index]
                    payload == op.payload
                    updated ==
                      [list EXCEPT
                         !.name = IF IsDefined(payload.name)
                                    THEN sanitizeName(payload.name) ELSE list.name,
                         !.description = IF IsDefined(payload.description)
                                           THEN sanitizeDescription(payload.description)
                                           ELSE list.description,
                         !.items = IF IsDefined(payload.items)
                                     THEN normalizeItems(Get(payload.items), op.base.item).items
                                     ELSE list.items,
                         !.updatedAt = op.t]
                IN  Write([data.lists EXCEPT ![index] = updated], ListResult(updated))

\* As if the update built the list from the payload alone, absent members
\* being normalised like those of createList.
updateListReplace(op, data) ==
  IF ~data.hasLists THEN Throw("TypeError")
  ELSE LET index == findIndex(data.lists, op.id)
       IN  IF index = 0 THEN Return(UndefinedResult)
           ELSE LET list == data.lists[index]
                    payload == op.payload
                    updated ==
                      [list EXCEPT
                         !.name = sanitizeName(payload.name),
                         !.description = sanitizeDescription(payload.description),
                         !.items = normalizeItems(IF IsDefined(payload.items)
                                                    THEN Get(payload.items) ELSE << >>,
                                                  op.base.item).items,
                         !.updatedAt = op.t]
                IN  Write([data.lists EXCEPT ![index] = updated], ListResult(updated))

\* As if an update made the list anew: createdAt is set with updatedAt.
updateListRecreating(op, data) ==
  IF ~data.hasLists THEN Throw("TypeError")
  ELSE LET index == findIndex(data.lists, op.id)
       IN  IF index = 0 THEN Return(UndefinedResult)
           ELSE LET list == data.lists[index]
                    payload == op.payload
                    updated ==
                      [list EXCEPT
                         !.name = IF IsDefined(payload.name)
                                    THEN sanitizeName(payload.name) ELSE list.name,
                         !.description = IF IsDefined(payload.description)
                                           THEN sanitizeDescription(payload.description)
                                           ELSE list.description,
                         !.items = IF IsDefined(payload.items)
                                     THEN normalizeItems(Get(payload.items), op.base.item).items
                                     ELSE list.items,
                         !.createdAt = op.t,
                         !.updatedAt = op.t]
                IN  Write([data.lists EXCEPT ![index] = updated], ListResult(updated))

\* As if an update with items also dropped the spins of the items it removes.
updateListPruning(op, data) ==
  IF ~data.hasLists THEN Throw("TypeError")
  ELSE LET index == findIndex(data.lists, op.id)
       IN  IF index = 0 THEN Return(UndefinedResult)
           ELSE LET list == data.lists[index]
                    payload == op.payload
                    items == IF IsDefined(payload.items)
                               THEN normalizeItems(Get(payload.items), op.base.item).items
                               ELSE list.items
                    updated ==
                      [list EXCEPT
                         !.name = IF IsDefined(payload.name)
                                    THEN sanitizeName(payload.name) ELSE list.name,
                         !.description = IF IsDefined(payload.description)
                                           THEN sanitizeDescription(payload.description)
                                           ELSE list.description,
                         !.items = items,
                         !.spins = SelectSeq(list.spins,
                                     LAMBDA spin : \E i \in DOMAIN items :
                                                     items[i].id = spin.itemId),
                         !.updatedAt = op.t]
                IN  Write([data.lists EXCEPT ![index] = updated], ListResult(updated))

updateList(op, data) ==
  IF ~data.hasLists THEN Throw("TypeError")
  ELSE LET index == findIndex(data.lists, op.id)
       IN  IF index = 0 THEN Return(UndefinedResult)
           ELSE LET list == data.lists[index]
                    payload == op.payload
                    updated ==
                      [list EXCEPT
                         !.name = IF IsDefined(payload.name)
                                    THEN sanitizeName(payload.name) ELSE list.name,
                         !.description = IF IsDefined(payload.description)
                                           THEN sanitizeDescription(payload.description)
                                           ELSE list.description,
                         !.items = IF IsDefined(payload.items)
                                     THEN normalizeItems(Get(payload.items), op.base.item).items
                                     ELSE list.items,
                         !.updatedAt = op.t]
                IN  Write([data.lists EXCEPT ![index] = updated], ListResult(updated))

\* As if deleteList wrote and returned true whether or not a list was removed.
deleteListUnchecked(op, data) ==
  IF ~data.hasLists THEN Throw("TypeError")
  ELSE Write(filterOut(data.lists, op.id), BoolResult(TRUE))

deleteList(op, data) ==
  IF ~data.hasLists THEN Throw("TypeError")
  ELSE LET nextLists == filterOut(data.lists, op.id)
           changed == Len(nextLists) # Len(data.lists)
       IN  IF ~changed THEN Return(BoolResult(FALSE))
           ELSE Write(nextLists, BoolResult(TRUE))

\* As if recordSpin lacked its two NO_ITEMS checks: with no items, chosen is
\* undefined and chosen.id throws.
recordSpinUnchecked(op, data) ==
  IF ~data.hasLists THEN Throw("TypeError")
  ELSE LET index == findIndex(data.lists, op.id)
       IN  IF index = 0 THEN Return(UndefinedResult)
           ELSE LET list == data.lists[index]
                IN  IF Len(list.items) = 0 THEN Throw("TypeError")
                    ELSE LET item == chosen(list.items, op.draw)
                             spin == [id |-> op.base.spin + 1,
                                      itemId |-> item.id,
                                      label |-> item.label,
                                      timestamp |-> op.t]
                             updated == [list EXCEPT
                                           !.spins = pushSpin(spin, list.spins),
                                           !.updatedAt = op.t]
                         IN  Write([data.lists EXCEPT ![index] = updated], SpinResult(spin))

\* As if recordSpin left updatedAt as it was.
recordSpinUntimed(op, data) ==
  IF ~data.hasLists THEN Throw("TypeError")
  ELSE LET index == findIndex(data.lists, op.id)
       IN  IF index = 0 THEN Return(UndefinedResult)
           ELSE LET list == data.lists[index]
                IN  IF Len(list.items) = 0 THEN Throw("NO_ITEMS")
                    ELSE IF totalWeight(list.items) <= 0 THEN Throw("NO_ITEMS")
                    ELSE LET item == chosen(list.items, op.draw)
                             spin == [id |-> op.base.spin + 1,
                                      itemId |-> item.id,
                                      label |-> item.label,
                                      timestamp |-> op.t]
                             updated == [list EXCEPT !.spins = pushSpin(spin, list.spins)]
                         IN  Write([data.lists EXCEPT ![index] = updated], SpinResult(spin))

recordSpin(op, data) ==
  IF ~data.hasLists THEN Throw("TypeError")
  ELSE LET index == findIndex(data.lists, op.id)
       IN  IF index = 0 THEN Return(UndefinedResult)
           ELSE LET list == data.lists[index]
                IN  IF Len(list.items) = 0 THEN Throw("NO_ITEMS")
                    ELSE IF totalWeight(list.items) <= 0 THEN Throw("NO_ITEMS")
                    ELSE LET item == chosen(list.items, op.draw)
                             spin == [id |-> op.base.spin + 1,
                                      itemId |-> item.id,
                                      label |-> item.label,
                                      timestamp |-> op.t]
                             updated == [list EXCEPT
                                           !.spins = pushSpin(spin, list.spins),
                                           !.updatedAt = op.t]
                         IN  Write([data.lists EXCEPT ![index] = updated], SpinResult(spin))

\* The part of a queued operation that runs once its read has answered.
operation(op, data) ==
  CASE op.kind = "createList" -> createList(op, data)
    [] op.kind = "updateList" -> updateList(op, data)
    [] op.kind = "deleteList" -> deleteList(op, data)
    [] op.kind = "recordSpin" -> recordSpin(op, data)

\* As if the draw were taken from 0 to totalWeight, both included.
randomIntInclusive(op, data) ==
  LET index == IF data.hasLists THEN findIndex(data.lists, op.id) ELSE 0
  IN  IF op.kind = "recordSpin" /\ index # 0 /\ totalWeight(data.lists[index].items) > 0
        THEN 0 .. totalWeight(data.lists[index].items)
        ELSE {0}

\* randomInt(totalWeight): the answers it can give to this operation.
randomInt(op, data) ==
  LET index == IF data.hasLists THEN findIndex(data.lists, op.id) ELSE 0
  IN  IF op.kind = "recordSpin" /\ index # 0 /\ totalWeight(data.lists[index].items) > 0
        THEN 0 .. (totalWeight(data.lists[index].items) - 1)
        ELSE {0}

\* The ids nanoid has minted once the operation's synchronous part is over.
mintedAfter(op, data, minted) ==
  LET out == operation(op, data)
  IN  CASE op.kind = "updateList" /\ out.write /\ IsDefined(op.payload.items) ->
             [minted EXCEPT !.item = normalizeItems(Get(op.payload.items), minted.item).minted]
        [] op.kind = "recordSpin" /\ out.write ->
             [minted EXCEPT !.spin = minted.spin + 1]
        [] OTHER -> minted

\* The two reads.
getLists(data) ==
  IF data.hasLists THEN Return(ListsResult(data.lists)) ELSE Return(UndefinedResult)

getList(id, data) ==
  IF ~data.hasLists THEN Throw("TypeError")
  ELSE IF findIndex(data.lists, id) = 0 THEN Return(UndefinedResult)
       ELSE Return(ListResult(data.lists[findIndex(data.lists, id)]))

\* ------------------------------------------------------------------- state
VARIABLES
  file,                    \* the content of DATA_FILE
  dataFileInitialization,  \* the shared initialization promise and how far it got
  queue,                   \* WheelStore.queue: the operation its promise waits for (0: none)
  ops,                     \* the operations given to runSerial, in submission order
  reads,                   \* the getLists / getList calls that wait for their answer
  minted,                  \* how many ids nanoid has handed out, per kind of id
  clock,                   \* the last instant new Date() answered
  faults,                  \* the file-system calls that ended with an error
  hist,                    \* history: the first content, the initialization's runs and writes
  calc                     \* a weight given to normalizeWeight on its own, and what it returned

vars ==
  << file, dataFileInitialization, queue, ops, reads, minted, clock, faults, hist, calc >>

Settled == {"fulfilled", "rejected"}

\* ------------------------------------------------------- what callers send
RawItem(id, label, weight) == [id |-> id, label |-> label, weight |-> weight]
\* An item id a caller made up (not one nanoid minted).
CallerId(n) == [minted |-> FALSE, n |-> n]
Payload(name, description, items) == [name |-> name, description |-> description, items |-> items]
NoPayload == Payload(Undefined, Undefined, Undefined)

CreatePayloads ==
  { Payload(Some(<< " ", "b" >>), Some(<< " " >>),
            Some(<< RawItem(Undefined, << "x" >>, Undefined),
                    RawItem(Undefined, << " " >>, Some(Finite(8))),
                    RawItem(Undefined, << "y", " " >>, Some(Finite(1))) >>)) }

UpdatePayloads ==
  { Payload(Some(<< "c" >>), Undefined, Undefined),
    Payload(Undefined, Undefined, Some(<< RawItem(Undefined, << " " >>, Undefined) >>)) }

\* The id callers pass: that of the first list there is or will be.
TargetIds == {1}

Call(kind, id, payload) == [kind |-> kind, id |-> id, payload |-> payload]

Mutations ==
  { Call("createList", 0, p) : p \in CreatePayloads }
    \cup { Call("updateList", i, p) : i \in TargetIds, p \in UpdatePayloads }
    \cup { Call("deleteList", i, NoPayload) : i \in TargetIds }
    \cup { Call("recordSpin", i, NoPayload) : i \in TargetIds }

Reads ==
  { Call("getLists", 0, NoPayload) } \cup { Call("getList", i, NoPayload) : i \in TargetIds }

\* ------------------------------------------------ what the file starts as
ItemId(n) == [minted |-> TRUE, n |-> n]

\* A list as earlier runs left it: items of the given weights, and a history
\* of nspins spins of its first item, the newest first.
SeedList(weights, nspins) ==
  [id |-> 1, name |-> << "s" >>, description |-> Undefined,
   items |-> [i \in 1 .. Len(weights) |->
                [id |-> ItemId(i), label |-> << "k" >>, weight |-> weights[i]]],
   spins |-> [i \in 1 .. nspins |->
                [id |-> nspins + 1 - i, itemId |-> ItemId(1), label |-> << "k" >>,
                 timestamp |-> 0]],
   createdAt |-> 0, updatedAt |-> 0]

\* No file, unreadable text, "{}", a document with one list whose history is
\* one spin short of full, and a document whose list was edited by hand to a
\* weight of 0.
InitialFiles ==
  { Absent, Malformed, EmptyObject,
    DocFile(<< SeedList(<< 1, 2 >>, MAX_SPIN_HISTORY - 1) >>),
    DocFile(<< SeedList(<< 0 >>, 0) >>) }

MintedIn(content) ==
  IF content.kind = "doc" /\ Len(content.lists) > 0
    THEN [list |-> 1, item |-> Len(content.lists[1].items),
          spin |-> Len(content.lists[1].spins)]
    ELSE [list |-> 0, item |-> 0, spin |-> 0]

\* No weight is being normalised on its own.
NoCalc == [pc |-> "none", weight |-> Undefined, once |-> 0, twice |-> 0]

StoreInit(content) ==
  /\ file = content
  /\ dataFileInitialization = "null"
  /\ queue = 0
  /\ ops = << >>
  /\ reads = {}
  /\ minted = MintedIn(content)
  /\ clock = 0
  /\ faults = 0
  /\ hist = [file0 |-> content, initRuns |-> 0, initWrites |-> 0, initOverwrote |-> FALSE]

InitWith(content) == StoreInit(content) /\ calc = NoCalc

Init == \E content \in InitialFiles : InitWith(content)

\* ------------------------------------------------------ the initialization
\* As if every ensureDataFile ran the check and the creation itself (as the
\* store did before it kept a handle).
NeedsInitializationAlways(handle) == TRUE

\* As if a rejected handle were dropped, so that the next call tries again.
NeedsInitializationRetrying(handle) == handle \in {"null", "rejected"}

\* ensureDataFile's test of the shared handle.
NeedsInitialization(handle) == handle = "null"

\* ensureDataFile up to its await: the handle it leaves (a new one has
\* called fs.mkdir and waits for it).
ensureDataFile(handle) == IF NeedsInitialization(handle) THEN "mkdir" ELSE handle

EnsureCalled ==
  /\ dataFileInitialization' = ensureDataFile(dataFileInitialization)
  /\ hist' = [hist EXCEPT !.initRuns =
                IF NeedsInitialization(dataFileInitialization) THEN @ + 1 ELSE @]

\* fs.mkdir(DATA_DIR, {recursive: true}) answers; fs.access is called.
InitMkdir ==
  /\ dataFileInitialization = "mkdir"
  /\ dataFileInitialization' = "access"
  /\ UNCHANGED << file, queue, ops, reads, minted, clock, faults, hist, calc >>

InitMkdirFault ==
  /\ dataFileInitialization = "mkdir"
  /\ faults < MaxFaults
  /\ dataFileInitialization' = "rejected"
  /\ faults' = faults + 1
  /\ UNCHANGED << file, queue, ops, reads, minted, clock, hist, calc >>

\* fs.access(DATA_FILE) answers: the file is there, or the catch block calls
\* fs.writeFile with the empty document.
InitAccess ==
  /\ dataFileInitialization = "access"
  /\ dataFileInitialization' = IF file.kind # "absent" THEN "fulfilled" ELSE "write"
  /\ UNCHANGED << file, queue, ops, reads, minted, clock, faults, hist, calc >>

InitWrite ==
  /\ dataFileInitialization = "write"
  /\ file' = JSONstringify([lists |-> << >>])
  /\ dataFileInitialization' = "fulfilled"
  /\ hist' = [hist EXCEPT !.initWrites = @ + 1,
                          !.initOverwrote = @ \/ file.kind # "absent"]
  /\ UNCHANGED << queue, ops, reads, minted, clock, faults, calc >>

\* The file could not be created.
InitWriteFault ==
  /\ dataFileInitialization = "write"
  /\ faults < MaxFaults
  /\ dataFileInitialization' = "rejected"
  /\ faults' = faults + 1
  /\ UNCHANGED << file, queue, ops, reads, minted, clock, hist, calc >>


\* ---------------------------------------------------------------- the queue
NoIds == [list |-> 0, item |-> 0, spin |-> 0]
NoSeen == [kind |-> "none", found |-> FALSE, nitems |-> 0, total |-> 0]

\* What an operation's read got: the kind of content, and of the list with
\* its id the number of items and their total weight.
SeenBy(op, content) ==
  LET data == JSONparse(content)
      index == IF data.hasLists THEN findIndex(data.lists, op.id) ELSE 0
  IN  [kind |-> content.kind, found |-> index # 0,
       nitems |-> IF index # 0 THEN Len(data.lists[index].items) ELSE 0,
       total |-> IF index # 0 THEN totalWeight(data.lists[index].items) ELSE 0]

\* An operation as runSerial receives it. after: the operation the queue's
\* promise stood for when it was chained. The rest is history: before (the
\* document when it started), seen (what its read got), fault (the
\* file-system call of its that failed), wrote (it opened the file for
\* writing), unchanged (the document was as before when it ended).
NewOp(call, after) ==
  [kind |-> call.kind, id |-> call.id, payload |-> call.payload, after |-> after,
   st |-> "queued", pc |-> "queued", prep |-> Undefined, t |-> 0, draw |-> 0,
   base |-> NoIds, out |-> << >>, res |-> NoResult, err |-> "none",
   before |-> Absent, seen |-> NoSeen, fault |-> "none", wrote |-> FALSE,
   unchanged |-> TRUE]

\* As if runSerial forgot to replace this.queue: every operation is chained to
\* the first, resolved promise.
queueAfterKept(q, k) == q

\* this.queue = next.then(...): the queue's promise now stands for operation k.
queueAfter(q, k) == k

\* As if the mutations called their bodies at once, without the queue (as the
\* store did before runSerial).
CanStartUnqueued(prev) == TRUE

\* As if the queue were chained with this.queue = this.queue.then(operation):
\* a rejection would be passed on and nothing behind it would be called.
CanStartOnSuccess(prev) == prev = "fulfilled"

\* this.queue.then(operation, operation), on the promise next.then(() =>
\* undefined, () => undefined) of the operation before: the operation is
\* called once the one before it has settled, either way.
CanStart(prev) == prev \in {"fulfilled", "rejected"}

PrevState(k) == IF ops[k].after = 0 THEN "fulfilled" ELSE ops[ops[k].after].st

\* runSerial(operation), called by createList, updateList, deleteList and
\* recordSpin as soon as they are called.
runSerial(call, max) ==
  /\ Len(ops) < max
  /\ ops' = Append(ops, NewOp(call, queue))
  /\ queue' = queueAfter(queue, Len(ops) + 1)
  /\ UNCHANGED << file, dataFileInitialization, reads, minted, clock, faults, hist, calc >>

Submit == \E call \in Mutations : runSerial(call, MaxOps)

\* How an operation ends (content: the file as it leaves it).
Settle(op, st, err, res, content) ==
  [op EXCEPT !.st = st, !.pc = "done", !.err = err, !.res = res,
             !.unchanged = (Document(content) = op.before),
             !.before = Absent, !.out = << >>]

\* The instants new Date() can answer: the clock does not go back.
Now == IF clock < MaxClock THEN {clock, clock + 1} ELSE {clock}

\* As if the queue were this.queue.then(operation).catch(operation): an
\* operation that fails is run again.
StartRetrying(k) ==
  /\ ops[k].st \in {"queued", "rejected"}
  /\ CanStart(PrevState(k))
  /\ LET op == ops[k]
         create == op.kind = "createList"
     IN  \E now \in IF create THEN Now ELSE {clock} :
           /\ clock' = now
           /\ ops' = [ops EXCEPT ![k] =
                        [op EXCEPT !.st = "running", !.pc = "read",
                                   !.prep = IF create THEN Some(newList(op.payload, now, minted))
                                                      ELSE Undefined,
                                   !.before = Document(file)]]
           /\ minted' = IF create
                          THEN [minted EXCEPT
                                  !.list = @ + 1,
                                  !.item = normalizeItems(
                                             IF IsDefined(op.payload.items)
                                               THEN Get(op.payload.items) ELSE << >>,
                                             @).minted]
                          ELSE minted
  /\ EnsureCalled
  /\ UNCHANGED << file, queue, reads, faults, calc >>

\* The operation is called: createList reads the clock and builds its list,
\* and each operation's readDataFile calls ensureDataFile and waits for it.
Start(k) ==
  /\ ops[k].st = "queued"
  /\ CanStart(PrevState(k))
  /\ LET op == ops[k]
         create == op.kind = "createList"
     IN  \E now \in IF create THEN Now ELSE {clock} :
           /\ clock' = now
           /\ ops' = [ops EXCEPT ![k] =
                        [op EXCEPT !.st = "running", !.pc = "read",
                                   !.prep = IF create THEN Some(newList(op.payload, now, minted))
                                                      ELSE Undefined,
                                   !.before = Document(file)]]
           /\ minted' = IF create
                          THEN [minted EXCEPT
                                  !.list = @ + 1,
                                  !.item = normalizeItems(
                                             IF IsDefined(op.payload.items)
                                               THEN Get(op.payload.items) ELSE << >>,
                                             @).minted]
                          ELSE minted
  /\ EnsureCalled
  /\ UNCHANGED << file, queue, reads, faults, calc >>

\* Whether the operation gets as far as new Date() after its read.
ReadsClock(op, data) ==
  /\ op.kind \in {"updateList", "recordSpin"}
  /\ operation(op, data).write

\* As if readDataFile called fs.readFile without awaiting ensureDataFile.
OpReadUnawaited(k) ==
  /\ ops[k].pc = "read"
  /\ IF dataFileInitialization = "rejected"
       THEN /\ ops' = [ops EXCEPT ![k] = Settle(@, "rejected", "INIT", NoResult, file)]
            /\ UNCHANGED << minted, clock, dataFileInitialization, hist >>
       ELSE LET r == readDataFile(file)
            IN  \E draw \in randomInt(ops[k], r.data) :
                \E now \in IF r.err = "none" /\ ReadsClock(ops[k], r.data) THEN Now ELSE {clock} :
                  LET op == [ops[k] EXCEPT !.t = now, !.draw = draw, !.base = minted,
                                           !.seen = SeenBy(ops[k], file)]
                      out == operation(op, r.data)
                  IN  /\ clock' = now
                      /\ IF r.err # "none"
                           THEN /\ ops' = [ops EXCEPT ![k] =
                                             Settle(op, "rejected", r.err, NoResult, file)]
                                /\ UNCHANGED << minted, dataFileInitialization, hist >>
                           ELSE /\ minted' = mintedAfter(op, r.data, minted)
                                /\ IF out.err # "none"
                                     THEN /\ ops' = [ops EXCEPT ![k] =
                                                       Settle(op, "rejected", out.err, NoResult, file)]
                                          /\ UNCHANGED << dataFileInitialization, hist >>
                                     ELSE IF ~out.write
                                       THEN /\ ops' = [ops EXCEPT ![k] =
                                                         Settle(op, "fulfilled", "none", out.res, file)]
                                            /\ UNCHANGED << dataFileInitialization, hist >>
                                       ELSE /\ ops' = [ops EXCEPT ![k] =
                                                         [op EXCEPT !.pc = "writeOpen",
                                                                    !.out = out.lists,
                                                                    !.res = out.res]]
                                            /\ EnsureCalled
  /\ UNCHANGED << file, queue, reads, faults, calc >>

\* fs.readFile answers the operation: it parses, changes the document in
\* memory and returns, throws, or calls writeDataFile (which calls
\* ensureDataFile again). A rejected initialization rejects it instead.
OpRead(k) ==
  /\ ops[k].pc = "read"
  /\ dataFileInitialization \in Settled
  /\ IF dataFileInitialization = "rejected"
       THEN /\ ops' = [ops EXCEPT ![k] = Settle(@, "rejected", "INIT", NoResult, file)]
            /\ UNCHANGED << minted, clock, dataFileInitialization, hist >>
       ELSE LET r == readDataFile(file)
            IN  \E draw \in randomInt(ops[k], r.data) :
                \E now \in IF r.err = "none" /\ ReadsClock(ops[k], r.data) THEN Now ELSE {clock} :
                  LET op == [ops[k] EXCEPT !.t = now, !.draw = draw, !.base = minted,
                                           !.seen = SeenBy(ops[k], file)]
                      out == operation(op, r.data)
                  IN  /\ clock' = now
                      /\ IF r.err # "none"
                           THEN /\ ops' = [ops EXCEPT ![k] =
                                             Settle(op, "rejected", r.err, NoResult, file)]
                                /\ UNCHANGED << minted, dataFileInitialization, hist >>
                           ELSE /\ minted' = mintedAfter(op, r.data, minted)
                                /\ IF out.err # "none"
                                     THEN /\ ops' = [ops EXCEPT ![k] =
                                                       Settle(op, "rejected", out.err, NoResult, file)]
                                          /\ UNCHANGED << dataFileInitialization, hist >>
                                     ELSE IF ~out.write
                                       THEN /\ ops' = [ops EXCEPT ![k] =
                                                         Settle(op, "fulfilled", "none", out.res, file)]
                                            /\ UNCHANGED << dataFileInitialization, hist >>
                                       ELSE /\ ops' = [ops EXCEPT ![k] =
                                                         [op EXCEPT !.pc = "writeOpen",
                                                                    !.out = out.lists,
                                                                    !.res = out.res]]
                                            /\ EnsureCalled
  /\ UNCHANGED << file, queue, reads, faults, calc >>

\* fs.readFile ends with an error.
OpReadFault(k) ==
  /\ ops[k].pc = "read"
  /\ dataFileInitialization = "fulfilled"
  /\ faults < MaxFaults
  /\ ops' = [ops EXCEPT ![k] =
               Settle([@ EXCEPT !.fault = "read"], "rejected", "EIO", NoResult, file)]
  /\ faults' = faults + 1
  /\ UNCHANGED << file, dataFileInitialization, queue, reads, minted, clock, hist, calc >>

\* fs.writeFile opens DATA_FILE for writing, which empties it.
WriteOpen(k) ==
  /\ ops[k].pc = "writeOpen"
  /\ dataFileInitialization \in Settled
  /\ IF dataFileInitialization = "rejected"
       THEN /\ ops' = [ops EXCEPT ![k] = Settle(@, "rejected", "INIT", NoResult, file)]
            /\ UNCHANGED file
       ELSE /\ file' = Malformed
            /\ ops' = [ops EXCEPT ![k] = [@ EXCEPT !.pc = "writeData", !.wrote = TRUE]]
  /\ UNCHANGED << dataFileInitialization, queue, reads, minted, clock, faults, hist, calc >>

\* fs.writeFile cannot open the file: nothing is changed.
WriteOpenFault(k) ==
  /\ ops[k].pc = "writeOpen"
  /\ dataFileInitialization = "fulfilled"
  /\ faults < MaxFaults
  /\ ops' = [ops EXCEPT ![k] =
               Settle([@ EXCEPT !.fault = "open"], "rejected", "EIO", NoResult, file)]
  /\ faults' = faults + 1
  /\ UNCHANGED << file, dataFileInitialization, queue, reads, minted, clock, hist, calc >>

\* fs.writeFile writes the text and answers.
WriteData(k) ==
  /\ ops[k].pc = "writeData"
  /\ file' = JSONstringify([lists |-> ops[k].out])
  /\ ops' = [ops EXCEPT ![k] = Settle(@, "fulfilled", "none", @.res, file')]
  /\ UNCHANGED << dataFileInitialization, queue, reads, minted, clock, faults, hist, calc >>

\* fs.writeFile ends with an error after it opened the file (a full disk).
WriteDataFault(k) ==
  /\ ops[k].pc = "writeData"
  /\ faults < MaxFaults
  /\ ops' = [ops EXCEPT ![k] =
               Settle([@ EXCEPT !.fault = "data"], "rejected", "EIO", NoResult, file)]
  /\ faults' = faults + 1
  /\ UNCHANGED << file, dataFileInitialization, queue, reads, minted, clock, hist, calc >>

\* ---------------------------------------------------------------- the reads
\* getLists / getList is called: readDataFile calls ensureDataFile and waits.
ReadCall ==
  \E call \in Reads :
    /\ call \notin reads
    /\ Cardinality(reads) < MaxReads
    /\ reads' = reads \cup {call}
    /\ EnsureCalled
    /\ UNCHANGED << file, queue, ops, minted, clock, faults, calc >>

\* What a read returns or throws once fs.readFile has answered with content.
ReadOutcome(call, content) ==
  LET got == readDataFile(content)
      out == IF call.kind = "getLists" THEN getLists(got.data) ELSE getList(call.id, got.data)
      err == IF got.err # "none" THEN got.err ELSE out.err
  IN  [st |-> IF err = "none" THEN "fulfilled" ELSE "rejected",
       err |-> err,
       res |-> IF err = "none" THEN out.res ELSE NoResult]

\* What the caller of a waiting read gets when its read is answered now.
Answer(call) ==
  IF dataFileInitialization = "rejected"
    THEN [st |-> "rejected", err |-> "INIT", res |-> NoResult]
    ELSE ReadOutcome(call, file)

\* fs.readFile answers the read (or the initialization has failed): the
\* caller gets Answer(call).
ReadAnswer(call) ==
  /\ call \in reads
  /\ dataFileInitialization \in Settled
  /\ reads' = reads \ {call}
  /\ UNCHANGED << file, dataFileInitialization, queue, ops, minted, clock, faults, hist, calc >>

\* fs.readFile ends with an error: the caller gets it.
ReadFault(call) ==
  /\ call \in reads
  /\ dataFileInitialization = "fulfilled"
  /\ faults < MaxFaults
  /\ reads' = reads \ {call}
  /\ faults' = faults + 1
  /\ UNCHANGED << file, dataFileInitialization, queue, ops, minted, clock, hist, calc >>

\* ------------------------------------------------------- the specification
Next ==
  \/ Submit
  \/ \E k \in DOMAIN ops : Start(k)
  \/ \E k \in DOMAIN ops : OpRead(k)
  \/ \E k \in DOMAIN ops : OpReadFault(k)
  \/ \E k \in DOMAIN ops : WriteOpen(k)
  \/ \E k \in DOMAIN ops : WriteOpenFault(k)
  \/ \E k \in DOMAIN ops : WriteData(k)
  \/ \E k \in DOMAIN ops : WriteDataFault(k)
  \/ ReadCall
  \/ \E call \in reads : ReadAnswer(call)
  \/ \E call \in reads : ReadFault(call)
  \/ InitMkdir
  \/ InitMkdirFault
  \/ InitAccess
  \/ InitWrite
  \/ InitWriteFault

Spec == Init /\ [][Next]_vars

\* Every file-system call completes, with its answer or with an error, and
\* every settled promise runs its callbacks: a step of the initialization or
\* of a queued operation that can be taken is taken in the end, and so is the
\* answer to each read. (Calls are not owed: Submit and ReadCall are the
\* callers' to make.)
Completes ==
  \/ \E k \in DOMAIN ops : Start(k)
  \/ \E k \in DOMAIN ops : OpRead(k) \/ OpReadFault(k)
  \/ \E k \in DOMAIN ops : WriteOpen(k) \/ WriteOpenFault(k)
  \/ \E k \in DOMAIN ops : WriteData(k) \/ WriteDataFault(k)
  \/ InitMkdir \/ InitMkdirFault
  \/ InitAccess
  \/ InitWrite \/ InitWriteFault
Answers(call) == ReadAnswer(call) \/ ReadFault(call)

\* The queue and the initialization under the calls that matter to them: a
\* createList, which returns a value, and a recordSpin, which returns the
\* not-found sentinel or a spin or fails, on no file, on a file that does not
\* parse and on a list whose only item has weight 0 (so that operations fail
\* on their own as well as on file-system errors), with the reads.
QueueCalls ==
  { Call("createList", 0, Payload(Some(<< "a" >>), Undefined, Undefined)),
    Call("recordSpin", 1, NoPayload) }

InitQueue ==
  \E content \in {Absent, Malformed, DocFile(<< SeedList(<< 0 >>, 0) >>)} :
    InitWith(content)

SubmitQueue == \E call \in QueueCalls : runSerial(call, MaxOps)

NextQueue ==
  \/ SubmitQueue
  \/ \E k \in DOMAIN ops : Start(k)
  \/ \E k \in DOMAIN ops : OpRead(k)
  \/ \E k \in DOMAIN ops : OpReadFault(k)
  \/ \E k \in DOMAIN ops : WriteOpen(k)
  \/ \E k \in DOMAIN ops : WriteOpenFault(k)
  \/ \E k \in DOMAIN ops : WriteData(k)
  \/ \E k \in DOMAIN ops : WriteDataFault(k)
  \/ ReadCall
  \/ \E call \in reads : ReadAnswer(call)
  \/ \E call \in reads : ReadFault(call)
  \/ InitMkdir
  \/ InitMkdirFault
  \/ InitAccess
  \/ InitWrite
  \/ InitWriteFault

SpecQueue == InitQueue /\ [][NextQueue]_vars

SpecFair ==
  /\ SpecQueue
  /\ WF_vars(Completes)
  /\ \A call \in Reads : WF_vars(Answers(call))

\* A store with one list of one item, and only recordSpin calls on it, as
\* many as it takes to fill the history and evict from it.
InitSpins == InitWith(DocFile(<< SeedList(<< 1 >>, 0) >>))

SubmitSpin == runSerial(Call("recordSpin", 1, NoPayload), MaxSpinOps)

NextSpins ==
  \/ SubmitSpin
  \/ \E k \in DOMAIN ops : Start(k)
  \/ \E k \in DOMAIN ops : OpRead(k)
  \/ \E k \in DOMAIN ops : WriteOpen(k)
  \/ \E k \in DOMAIN ops : WriteData(k)
  \/ InitMkdir
  \/ InitAccess

SpecSpins == InitSpins /\ [][NextSpins]_vars

\* The mutations with the payloads callers can send: every kind of weight
\* (none, NaN or an infinity, 0, -1.5, 0.25, 1.5, 2.5), names and
\* descriptions that are blank, and every choice of the members of an update.
PayloadWeights ==
  { Undefined, Some(NonFinite), Some(Finite(0)), Some(Finite(-6)),
    Some(Finite(1)), Some(Finite(6)), Some(Finite(10)) }

WeightPayloads ==
  { Payload(Some(<< "a" >>), Some(<< "d" >>),
            Some(<< RawItem(Undefined, << "x" >>, w) >>)) : w \in PayloadWeights }

PartialPayloads ==
  { Payload(Some(<< " " >>), Undefined, Undefined),
    Payload(Undefined, Some(<< " " >>), Undefined),
    Payload(Some(<< "c" >>), Some(<< "e" >>),
            Some(<< RawItem(Undefined, << "z" >>, Undefined) >>)) }
    \cup { Payload(Undefined, Undefined, Some(<< RawItem(Some(CallerId(7)), << "y" >>, w) >>)) :
              w \in PayloadWeights }

PayloadMutations ==
  { Call("createList", 0, p) : p \in WeightPayloads }
    \cup { Call("updateList", i, p) : i \in TargetIds, p \in PartialPayloads }
    \cup { Call("deleteList", i, NoPayload) : i \in TargetIds }
    \cup { Call("recordSpin", i, NoPayload) : i \in TargetIds }

\* An empty store (no file yet), or one list whose history is one spin short
\* of full.
InitPayloads ==
  \E content \in {Absent, DocFile(<< SeedList(<< 1, 2 >>, MAX_SPIN_HISTORY - 1) >>)} :
    InitWith(content)

SubmitPayload == \E call \in PayloadMutations : runSerial(call, MaxPayloadOps)

NextPayloads ==
  \/ SubmitPayload
  \/ \E k \in DOMAIN ops : Start(k)
  \/ \E k \in DOMAIN ops : OpRead(k)
  \/ \E k \in DOMAIN ops : WriteOpen(k)
  \/ \E k \in DOMAIN ops : WriteData(k)
  \/ InitMkdir
  \/ InitAccess
  \/ InitWrite

SpecPayloads == InitPayloads /\ [][NextPayloads]_vars

\* A store with one list whose items have any weights from 0 (a weight only
\* an edit of the file by hand gives) to MaxItemWeight, and recordSpin calls
\* on it.
ItemWeights == UNION { [1 .. n -> 0 .. MaxItemWeight] : n \in 1 .. MaxItems }

InitDraw == \E weights \in ItemWeights : InitWith(DocFile(<< SeedList(weights, 0) >>))

SubmitDraw == runSerial(Call("recordSpin", 1, NoPayload), MaxDraws)

NextDraw ==
  \/ SubmitDraw
  \/ \E k \in DOMAIN ops : Start(k)
  \/ \E k \in DOMAIN ops : OpRead(k)
  \/ \E k \in DOMAIN ops : WriteOpen(k)
  \/ \E k \in DOMAIN ops : WriteData(k)
  \/ InitMkdir
  \/ InitAccess

SpecDraw == InitDraw /\ [][NextDraw]_vars

\* One createList or updateList on a store with one list of two items, with
\* any items a payload can hold: up to MaxRawItems of them, each with a label
\* that is empty, blank, padded or plain, and with no id, the id of an item
\* of the list, or an id the caller made up.
RawLabels == { << >>, << " " >>, << " ", "a", " " >>, << "b" >> }
RawIds == { Undefined, Some(ItemId(1)), Some(CallerId(7)) }
RawItems == { RawItem(id, label, Undefined) : id \in RawIds, label \in RawLabels }
RawItemSeqs == UNION { [1 .. n -> RawItems] : n \in 0 .. MaxRawItems }

ItemCalls ==
  { Call("createList", 0, Payload(Some(<< "a" >>), Undefined, Some(items))) :
      items \in RawItemSeqs }
    \cup { Call("updateList", 1, Payload(Undefined, Undefined, Some(items))) :
              items \in RawItemSeqs }
    \cup { Call("updateList", 1, Payload(Some(<< "c" >>), Undefined, Undefined)) }

InitItems == InitWith(DocFile(<< SeedList(<< 1, 2 >>, 0) >>))

SubmitItems ==
  /\ ops = << >>
  /\ \E call \in ItemCalls : runSerial(call, 1)

NextItems ==
  \/ SubmitItems
  \/ \E k \in DOMAIN ops : Start(k)
  \/ \E k \in DOMAIN ops : OpRead(k)
  \/ \E k \in DOMAIN ops : WriteOpen(k)
  \/ \E k \in DOMAIN ops : WriteData(k)
  \/ InitMkdir
  \/ InitAccess

SpecItems == InitItems /\ [][NextItems]_vars

\* normalizeWeight on its own: given no weight, a non-finite number, or any
\* number of quarters from -MaxWeight to MaxWeight, and then given what it
\* returned.
WeightInputs ==
  { Undefined, Some(NonFinite) }
    \cup { Some(Finite(q)) : q \in (0 - 4 * MaxWeight) .. (4 * MaxWeight) }

\* A weight normalizeWeight returned, as the number it is.
AsNumber(n) == Finite(4 * n)

InitWeight ==
  /\ StoreInit(Absent)
  /\ \E w \in WeightInputs : calc = [pc |-> "called", weight |-> w, once |-> 0, twice |-> 0]

NormalizeOnce ==
  /\ calc.pc = "called"
  /\ calc' = [calc EXCEPT !.pc = "once", !.once = normalizeWeight(calc.weight)]
  /\ UNCHANGED << file, dataFileInitialization, queue, ops, reads, minted, clock, faults, hist >>

NormalizeTwice ==
  /\ calc.pc = "once"
  /\ calc' = [calc EXCEPT !.pc = "twice",
                          !.twice = normalizeWeight(Some(AsNumber(calc.once)))]
  /\ UNCHANGED << file, dataFileInitialization, queue, ops, reads, minted, clock, faults, hist >>

NextWeight == NormalizeOnce \/ NormalizeTwice

SpecWeight == InitWeight /\ [][NextWeight]_vars

\* ------------------------------------------------------------------ claims
\* What one operation, run alone on content, leaves in the file, given what
\* it drew from outside (its instant, draw and ids, and the file-system call
\* of its that failed).
SerialStep(op, content) ==
  IF op.err = "INIT" \/ op.fault = "read" THEN content
  ELSE LET r == readDataFile(content)
       IN  IF r.err # "none" THEN content
           ELSE LET out == operation(op, r.data)
                IN  IF out.err # "none" \/ ~out.write \/ op.fault = "open" THEN content
                    ELSE IF op.fault = "data" THEN Malformed
                    ELSE JSONstringify([lists |-> out.lists])

\* The document after the first n operations, applied one after another in
\* submission order to the initial document.
RECURSIVE SerialDocument(_)
SerialDocument(n) ==
  IF n = 0 THEN Document(hist.file0) ELSE SerialStep(ops[n], SerialDocument(n - 1))

AllSettled == \A k \in DOMAIN ops : ops[k].st \in Settled

\* C1: no lost updates. Once every submitted mutation has completed, the
\* persisted document is the one obtained by applying them one after another,
\* in submission order, to the initial document.
NoLostUpdates == AllSettled => Document(file) = SerialDocument(Len(ops))

\* Two mutations of the same list have both been persisted.
NoLostUpdatesWitness ==
  /\ Len(ops) >= 2
  /\ AllSettled
  /\ ops[1].kind = "recordSpin" /\ ops[1].id = 1 /\ ops[1].st = "fulfilled" /\ ops[1].wrote
  /\ ops[2].kind = "updateList" /\ ops[2].id = 1 /\ ops[2].st = "fulfilled" /\ ops[2].wrote

\* C2: mutual exclusion. At most one operation given to runSerial is between
\* its start and its completion.
MutualExclusion == Cardinality({k \in DOMAIN ops : ops[k].st = "running"}) <= 1

\* One operation is in the middle of its write while another waits its turn.
MutualExclusionWitness ==
  \E i, j \in DOMAIN ops :
    /\ ops[i].pc = "writeData"
    /\ ops[j].st = "queued"

\* C3: FIFO. An operation has not started before every operation submitted
\* before it has completed, with a value or a failure.
FIFO ==
  \A i, j \in DOMAIN ops :
    (i < j /\ ops[j].st # "queued") => ops[i].st \in Settled

\* The second operation runs after the first one has failed.
FIFOWitness ==
  /\ Len(ops) >= 2
  /\ ops[1].st = "rejected"
  /\ ops[2].st = "running"

\* A step of operation k itself, and a step of the initialization it may
\* be waiting for.
StepOf(k) == Start(k) \/ OpRead(k) \/ WriteOpen(k) \/ WriteData(k)
InitStep == InitMkdir \/ InitAccess \/ InitWrite

\* C4: a failing operation does not block the queue. Once an operation has
\* failed, the first operation not yet completed can always take its next
\* step: it is started, and each of its steps up to its completion is open
\* to it (or to the initialization it waits for).
QueueRecovers ==
  \A k \in DOMAIN ops :
    ( /\ ops[k].st \notin Settled
      /\ \A i \in 1 .. (k - 1) : ops[i].st \in Settled
      /\ \E i \in 1 .. (k - 1) : ops[i].st = "rejected" )
      => ENABLED (StepOf(k) \/ InitStep)

\* recordSpin failed with NO_ITEMS and the operation behind it ran to its end.
QueueRecoversWitness ==
  /\ Len(ops) >= 2
  /\ ops[1].err = "NO_ITEMS"
  /\ ops[2].st = "fulfilled"
  /\ ops[2].wrote

\* C5: atomicity on failure. Whenever a mutation fails, the persisted
\* document is, when it fails, what it was when the mutation started.
AtomicOnFailure ==
  \A k \in DOMAIN ops : ops[k].st = "rejected" => ops[k].unchanged

\* C6: spin-history bound. No list of the persisted document holds more than
\* MAX_SPIN_HISTORY spins.
SpinHistoryBound ==
  file.kind = "doc" =>
    \A i \in DOMAIN file.lists : Len(file.lists[i].spins) <= MAX_SPIN_HISTORY

\* A list whose history is full after more spins than the history holds.
SpinHistoryBoundWitness ==
  /\ file.kind = "doc"
  /\ \E i \in DOMAIN file.lists :
       /\ Len(file.lists[i].spins) = MAX_SPIN_HISTORY
       /\ minted.spin > MAX_SPIN_HISTORY

\* The recordSpin calls that have succeeded.
Spun == {k \in DOMAIN ops : ops[k].kind = "recordSpin" /\ ops[k].st = "fulfilled"}

\* C7: spin-history content. After n successful recordSpin calls on a list
\* that started without history, its spins are the results of the
\* min(n, MAX_SPIN_HISTORY) latest calls, the newest first.
SpinHistoryContent ==
  (file.kind = "doc" /\ Spun = 1 .. Cardinality(Spun)) =>
    LET spins == file.lists[1].spins
        n == Cardinality(Spun)
    IN  /\ Len(spins) = Min(n, MAX_SPIN_HISTORY)
        /\ \A i \in 1 .. Len(spins) : spins[i] = ops[n + 1 - i].res.val

\* More calls have succeeded than the history holds.
SpinHistoryContentWitness ==
  /\ file.kind = "doc"
  /\ Cardinality(Spun) > MAX_SPIN_HISTORY
  /\ Len(file.lists[1].spins) = MAX_SPIN_HISTORY

\* C8: recordSpin on a list that is there and has no items, or items whose
\* weights sum to 0 or less, fails with NO_ITEMS, and writes nothing: the
\* document is as it was.
NoItemsFailure ==
  \A k \in DOMAIN ops :
    ( /\ ops[k].kind = "recordSpin"
      /\ ops[k].st \in Settled
      /\ ops[k].seen.found
      /\ (ops[k].seen.nitems = 0 \/ ops[k].seen.total <= 0) )
      => (ops[k].err = "NO_ITEMS" /\ ~ops[k].wrote /\ ops[k].unchanged)

\* recordSpin has failed on a list emptied by the update before it.
NoItemsFailureWitness ==
  \E k \in DOMAIN ops :
    /\ ops[k].kind = "recordSpin"
    /\ ops[k].st = "rejected"
    /\ ops[k].seen.found
    /\ ops[k].seen.nitems = 0
    /\ ops[k].err = "NO_ITEMS"

\* The operations that have written nothing so far.
NoOpWrote == \A k \in DOMAIN ops : ~ops[k].wrote

\* C9: exactly-once initialization. However many calls of ensureDataFile
\* there are, the check and the creation run once; a missing file is created
\* as the empty document, and a file that was there is not written by the
\* initialization.
ExactlyOnceInitialization ==
  /\ hist.initRuns <= 1
  /\ hist.initWrites <= 1
  /\ ~hist.initOverwrote
  /\ (hist.initWrites = 1 => hist.file0 = Absent)
  /\ (dataFileInitialization = "fulfilled" /\ hist.file0 = Absent) => hist.initWrites = 1
  /\ (hist.initWrites = 1 /\ NoOpWrote) => file = DocFile(<< >>)
  /\ (hist.file0 # Absent /\ NoOpWrote) => file = hist.file0

\* A read and a mutation both wait for the one initialization, which is
\* about to create the file.
ExactlyOnceInitializationWitness ==
  /\ dataFileInitialization = "write"
  /\ reads # {}
  /\ \E k \in DOMAIN ops : ops[k].pc = "read"

\* The kinds of content that are not a Document.
Unparsable == {"malformed", "object"}

\* C10: corrupt-store handling. Whenever the stored content is not a
\* Document, each of the four mutations and the two reads fails with
\* DATA_CORRUPT, and the content is left as it is.
CorruptStoreHandling ==
  /\ \A k \in DOMAIN ops :
       (ops[k].st \in Settled /\ ops[k].seen.kind \in Unparsable)
         => (ops[k].err = "DATA_CORRUPT" /\ ops[k].unchanged)
  /\ \A call \in reads :
       (dataFileInitialization = "fulfilled" /\ file.kind \in Unparsable)
         => Answer(call).err = "DATA_CORRUPT"

\* The mutations whose callers have their result or their error, and those
\* that have got as far as writing: by FIFO, the first so many.
Completed == Cardinality({k \in DOMAIN ops : ops[k].st \in Settled})
Reached == Cardinality({k \in DOMAIN ops : ops[k].pc \in {"writeOpen", "writeData", "done"}})

\* C11: read consistency. A getLists / getList call gets the document as it
\* is persisted after some prefix, in submission order, of the submitted
\* mutations, a prefix that holds every mutation completed when the read was
\* called; it never gets a document partly written. (A read can be called at
\* any moment, so a read that waits in a state may have been called in that
\* very state: the mutations completed there are the ones it must see.)
ReadConsistency ==
  \A call \in reads :
    dataFileInitialization = "fulfilled" =>
      \E n \in Completed .. Reached :
        Answer(call) = ReadOutcome(call, SerialDocument(n))

\* The list with the given id in content, as an optional value.
ListOf(content, id) ==
  IF content.kind = "doc" /\ findIndex(content.lists, id) # 0
    THEN Some(content.lists[findIndex(content.lists, id)])
    ELSE Undefined

\* No mutation submitted after the k-th has written.
LastWriter(k) == \A j \in (k + 1) .. Len(ops) : ~ops[j].wrote

\* C12: partial update. An updateList that finds its list changes name,
\* description and items only when the payload holds them, to their
\* normalised values, and sets updatedAt; the members the payload omits, and
\* id, createdAt and spins, are as before. The list is returned and persisted
\* so.
PartialUpdate ==
  \A k \in DOMAIN ops :
    (ops[k].kind = "updateList" /\ ops[k].st = "fulfilled" /\ ops[k].res.tag = "list") =>
      LET prior == Get(ListOf(SerialDocument(k - 1), ops[k].id))
          now == ops[k].res.val
          payload == ops[k].payload
      IN  /\ now.id = prior.id
          /\ now.createdAt = prior.createdAt
          /\ now.spins = prior.spins
          /\ now.name = IF IsDefined(payload.name)
                          THEN sanitizeName(payload.name) ELSE prior.name
          /\ now.description = IF IsDefined(payload.description)
                                 THEN sanitizeDescription(payload.description)
                                 ELSE prior.description
          /\ now.items = IF IsDefined(payload.items)
                           THEN normalizeItems(Get(payload.items), ops[k].base.item).items
                           ELSE prior.items
          /\ now.updatedAt = ops[k].t
          /\ now.updatedAt >= prior.updatedAt
          /\ LastWriter(k) => ListOf(file, ops[k].id) = Some(now)

\* An update of the name alone, at a later instant, of a list that has a
\* description, an item and a spin, all of which it keeps.
PartialUpdateWitness ==
  \E k \in DOMAIN ops :
    /\ ops[k].kind = "updateList" /\ ops[k].st = "fulfilled" /\ ops[k].res.tag = "list"
    /\ IsDefined(ops[k].payload.name)
    /\ ~IsDefined(ops[k].payload.items) /\ ~IsDefined(ops[k].payload.description)
    /\ ops[k].res.val.name = UntitledWheel
    /\ ops[k].res.val.items # << >>
    /\ ops[k].res.val.spins # << >>
    /\ ops[k].res.val.updatedAt > ops[k].res.val.createdAt
    /\ ListOf(file, ops[k].id) = Some(ops[k].res.val)

\* C13: not found is a value and has no effect. updateList and recordSpin
\* whose read finds no list with their id return undefined, write nothing
\* and leave the document as it was; getList on a document without a list
\* of its id returns undefined.
NotFoundIsAValue ==
  /\ \A k \in DOMAIN ops :
       ( /\ ops[k].kind \in {"updateList", "recordSpin"}
         /\ ops[k].st \in Settled
         /\ ops[k].seen.kind = "doc"
         /\ ~ops[k].seen.found )
         => ( /\ ops[k].st = "fulfilled"
              /\ ops[k].res = UndefinedResult
              /\ ~ops[k].wrote
              /\ ops[k].unchanged )
  /\ \A call \in reads :
       ( /\ call.kind = "getList"
         /\ dataFileInitialization = "fulfilled"
         /\ file.kind = "doc"
         /\ ListOf(file, call.id) = Undefined )
         => Answer(call) = [st |-> "fulfilled", err |-> "none", res |-> UndefinedResult]

\* The list was deleted; an updateList or a recordSpin of it has then
\* returned undefined, and a getList of it waits for its answer.
NotFoundIsAValueWitness ==
  /\ hist.file0.kind = "doc"
  /\ file = DocFile(<< >>)
  /\ \E k \in DOMAIN ops :
       /\ ops[k].kind \in {"updateList", "recordSpin"}
       /\ ops[k].st = "fulfilled"
       /\ ops[k].res = UndefinedResult
       /\ ~ops[k].seen.found
  /\ \E call \in reads : call.kind = "getList"
  /\ dataFileInitialization = "fulfilled"

\* The deleteList calls that have returned.
Deleted == {k \in DOMAIN ops : ops[k].kind = "deleteList" /\ ops[k].st = "fulfilled"}

\* C14: deleteList returns true exactly when its read found a list with its
\* id; it has then written, and the document holds no list with that id
\* (none is written back by the mutations behind it either). When it returns
\* false it has written nothing and the document is as it was. Once a
\* deleteList has returned true, a later deleteList of the same id returns
\* false.
DeleteList ==
  /\ \A k \in Deleted :
       /\ ops[k].res = BoolResult(ops[k].seen.found)
       /\ ops[k].seen.found =>
            ( /\ ops[k].wrote
              /\ file.kind = "doc" => ListOf(file, ops[k].id) = Undefined )
       /\ ~ops[k].seen.found => (~ops[k].wrote /\ ops[k].unchanged)
  /\ \A i, j \in Deleted :
       (i < j /\ ops[i].id = ops[j].id /\ ops[i].res = BoolResult(TRUE))
         => ops[j].res = BoolResult(FALSE)

\* The same list was deleted twice: true, then false.
DeleteListWitness ==
  /\ Len(ops) >= 2
  /\ {1, 2} \subseteq Deleted
  /\ ops[1].id = ops[2].id
  /\ ops[1].res = BoolResult(TRUE)
  /\ ops[2].res = BoolResult(FALSE)

\* The items of a payload whose labels are not blank, in payload order.
NonBlank(items) == SelectSeq(items, LAMBDA item : Trim(item.label) # << >>)

\* C15: create / get round trip. Once createList(payload) has returned the
\* list L, and as long as no mutation of L has written, getList(L.id) returns
\* a list equal to L; L has one item for each payload item whose label is not
\* blank, in payload order, with normalised weights (1 for a missing one) and
\* ids that differ from one another, no spins, and createdAt = updatedAt.
CreateGetRoundTrip ==
  \A k \in DOMAIN ops :
    (ops[k].kind = "createList" /\ ops[k].st = "fulfilled") =>
      LET L == ops[k].res.val
          kept == NonBlank(IF IsDefined(ops[k].payload.items)
                             THEN Get(ops[k].payload.items) ELSE << >>)
      IN  /\ Len(L.items) = Len(kept)
          /\ \A i \in DOMAIN kept :
               /\ L.items[i].label = Trim(kept[i].label)
               /\ L.items[i].weight = normalizeWeight(kept[i].weight)
               /\ ~IsDefined(kept[i].weight) => L.items[i].weight = 1
          /\ \A i, j \in DOMAIN L.items : i # j => L.items[i].id # L.items[j].id
          /\ L.spins = << >>
          /\ L.createdAt = L.updatedAt
          /\ \A call \in reads :
               ( /\ call.kind = "getList"
                 /\ call.id = L.id
                 /\ \A j \in DOMAIN ops : (j # k /\ ops[j].id = L.id) => ~ops[j].wrote )
                 => Answer(call) = [st |-> "fulfilled", err |-> "none", res |-> ListResult(L)]

\* The sum of the weights of the first i items.
RECURSIVE Cumulative(_, _)
Cumulative(items, i) == IF i = 0 THEN 0 ELSE Cumulative(items, i - 1) + items[i].weight

\* The items of the list of SpecDraw (no call of SpecDraw changes them), and
\* the recordSpin calls that returned a spin.
DrawItems == hist.file0.lists[1].items
Drawn == {k \in DOMAIN ops : ops[k].st = "fulfilled" /\ ops[k].res.tag = "spin"}

\* C16: weighted bucket selection. A recordSpin on items of weights w_1..w_k
\* with total T > 0 draws t in 0 .. T-1 and selects the first item, in list
\* order, whose cumulative weight w_1 + .. + w_i is above t.
BucketSelection ==
  \A k \in Drawn :
    LET t == ops[k].draw
        T == Cumulative(DrawItems, Len(DrawItems))
    IN  /\ T > 0
        /\ t \in 0 .. (T - 1)
        /\ \E i \in DOMAIN DrawItems :
             /\ Cumulative(DrawItems, i) > t
             /\ \A j \in 1 .. (i - 1) : Cumulative(DrawItems, j) <= t
             /\ ops[k].res.val.itemId = DrawItems[i].id
             /\ ops[k].res.val.label = DrawItems[i].label

\* A draw equal to the first bucket's boundary has selected the second item.
BucketSelectionWitness ==
  \E k \in Drawn :
    /\ Len(DrawItems) >= 2
    /\ DrawItems[1].weight > 0
    /\ ops[k].draw = DrawItems[1].weight
    /\ ops[k].res.val.itemId = DrawItems[2].id

\* The draws randomInt can answer to the k-th call, and those of them that
\* make it select the i-th item.
DrawsOf(k) == randomInt(ops[k], JSONparse(hist.file0))
DrawsSelecting(k, i) ==
  { t \in DrawsOf(k) :
      recordSpin([ops[k] EXCEPT !.draw = t], JSONparse(hist.file0)).res.val.itemId
        = DrawItems[i].id }

\* C17: fairness of the selection. A recordSpin on items of total weight
\* T > 0 has T draws, 0 .. T-1, and each item is selected by as many of them
\* as its weight: its chance is weight / T.
SelectionFairness ==
  \A k \in DOMAIN ops :
    (ops[k].pc = "read" \/ k \in Drawn) =>
      LET T == Cumulative(DrawItems, Len(DrawItems))
      IN  T > 0 =>
            /\ DrawsOf(k) = 0 .. (T - 1)
            /\ \A i \in DOMAIN DrawItems :
                 Cardinality(DrawsSelecting(k, i)) = DrawItems[i].weight

\* Weights [1, 3]: the second item was selected, as it is by 3 of the 4 draws.
SelectionFairnessWitness ==
  \E k \in Drawn :
    /\ Len(DrawItems) = 2
    /\ DrawItems[1].weight = 1 /\ DrawItems[2].weight = 3
    /\ ops[k].res.val.itemId = DrawItems[2].id
    /\ Cardinality(DrawsOf(k)) = 4
    /\ Cardinality(DrawsSelecting(k, 2)) = 3

\* C18: weight invariant. From an empty store, whatever weights the payloads
\* of the calls hold, every item of every persisted list has a whole weight
\* of at least 1.
WeightInvariant ==
  (hist.file0 = Absent /\ file.kind = "doc") =>
    \A i \in DOMAIN file.lists :
      \A j \in DOMAIN file.lists[i].items :
        /\ file.lists[i].items[j].weight \in Nat
        /\ file.lists[i].items[j].weight >= 1

\* A list created with a negative weight and updated with a weight of 0 or a
\* non-finite one is persisted with the weight 1.
WeightInvariantWitness ==
  /\ hist.file0 = Absent
  /\ Len(ops) >= 2
  /\ ops[1].kind = "createList" /\ ops[1].st = "fulfilled"
  /\ Get(ops[1].payload.items)[1].weight = Some(Finite(-6))
  /\ ops[2].kind = "updateList" /\ ops[2].st = "fulfilled" /\ ops[2].wrote
  /\ IsDefined(ops[2].payload.items)
  /\ Get(ops[2].payload.items)[1].weight \in {Some(Finite(0)), Some(NonFinite)}
  /\ file.kind = "doc"
  /\ Len(file.lists) = 1
  /\ file.lists[1].items[1].weight = 1

\* The integer nearest to q quarters, the upper one of two equally near.
Nearest(q) ==
  CHOOSE n \in (0 - MaxWeight - 1) .. (MaxWeight + 1) : 4 * n - 2 <= q /\ q < 4 * n + 2

\* normalizeWeight has returned.
Normalized == calc.pc \in {"once", "twice"}

\* C19, as stated: normalizeWeight(w) is a whole number of at least 1: 1 for
\* a missing, a non-finite and a non-positive w, the rounded value of every
\* other w.
WeightClamp ==
  Normalized =>
    LET w == calc.weight
    IN  /\ calc.once \in Int
        /\ calc.once >= 1
        /\ calc.once = IF ~IsDefined(w) \/ ~Get(w).fin \/ Get(w).q <= 0
                         THEN 1 ELSE Nearest(Get(w).q)

\* C19, amended: normalizeWeight(w) is a whole number of at least 1: 1 for a
\* missing and a non-finite w and for every w whose rounded value is below 1
\* (every w below 0.5, the positive ones included), the rounded value of
\* every other w.
WeightClampRounded ==
  Normalized =>
    LET w == calc.weight
    IN  /\ calc.once \in Int
        /\ calc.once >= 1
        /\ calc.once = IF ~IsDefined(w) \/ ~Get(w).fin \/ Nearest(Get(w).q) < 1
                         THEN 1 ELSE Nearest(Get(w).q)

\* 0.25 is positive and rounds to 0: normalizeWeight has returned 1.
WeightClampRoundedWitness ==
  /\ calc.pc = "once"
  /\ calc.weight = Some(Finite(1))
  /\ calc.once = 1

\* C20: idempotent normalisation. normalizeWeight of what normalizeWeight
\* returned is that same weight.
WeightIdempotent == calc.pc = "twice" => calc.twice = calc.once

\* 2.5 was normalised to 3, and 3 to 3.
WeightIdempotentWitness ==
  /\ calc.pc = "twice"
  /\ calc.weight = Some(Finite(10))
  /\ calc.once = 3
  /\ calc.twice = 3

\* A label with nothing but white space in it, and the items of a payload
\* whose labels are not so.
Blank(label) == \A i \in DOMAIN label : label[i] = SP
Surviving(items) == SelectSeq(items, LAMBDA item : ~Blank(item.label))

\* The calls to which normalizeItems has returned, what it was given and
\* what it returned: createList once it has built its list, updateList with
\* items once it has returned its list.
Normalizing ==
  { k \in DOMAIN ops :
      \/ ops[k].kind = "createList" /\ IsDefined(ops[k].prep)
      \/ /\ ops[k].kind = "updateList" /\ IsDefined(ops[k].payload.items)
         /\ ops[k].st = "fulfilled" /\ ops[k].res.tag = "list" }
RawOf(k) == IF IsDefined(ops[k].payload.items) THEN Get(ops[k].payload.items) ELSE << >>
NormalizedOf(k) ==
  IF ops[k].kind = "createList" THEN Get(ops[k].prep).items ELSE ops[k].res.val.items

\* C21: label filtering. normalizeItems returns the entries of its input
\* whose label is not empty once trimmed, in their order, each with its label
\* trimmed; no item it returns has an empty label, and no persisted item has
\* one.
LabelFiltering ==
  /\ \A k \in Normalizing :
       LET kept == Surviving(RawOf(k))
           out == NormalizedOf(k)
       IN  /\ Len(out) = Len(kept)
           /\ \A i \in DOMAIN out :
                /\ out[i].label = Trim(kept[i].label)
                /\ out[i].label # << >>
                /\ out[i].label[1] # SP /\ out[i].label[Len(out[i].label)] # SP
                /\ out[i].weight = normalizeWeight(kept[i].weight)
                /\ IsDefined(kept[i].id) => out[i].id = Get(kept[i].id)
  /\ file.kind = "doc" =>
       \A i \in DOMAIN file.lists :
         \A j \in DOMAIN file.lists[i].items :
           ~Blank(file.lists[i].items[j].label)

\* A payload of a blank entry and a padded one was persisted as the one item
\* with the trimmed label.
LabelFilteringWitness ==
  \E k \in Normalizing :
    /\ ops[k].st = "fulfilled" /\ ops[k].wrote
    /\ Len(RawOf(k)) = 2
    /\ RawOf(k)[1].label = << " " >>
    /\ RawOf(k)[2].label = << " ", "a", " " >>
    /\ Len(NormalizedOf(k)) = 1
    /\ NormalizedOf(k)[1].label = << "a" >>
    /\ \E i \in DOMAIN file.lists : file.lists[i].items = NormalizedOf(k)

\* The ids of the items of a list, and of the items of every list of a
\* document.
ItemIds(items) == { items[i].id : i \in DOMAIN items }
ItemIdsIn(content) ==
  IF content.kind = "doc"
    THEN UNION { ItemIds(content.lists[i].items) : i \in DOMAIN content.lists }
    ELSE {}
Distinct(items) == \A i, j \in DOMAIN items : items[i].id = items[j].id => i = j

\* C22: item id uniqueness. In every persisted state the ids of the items of
\* one list are pairwise distinct, whatever items createList and updateList
\* were given, with ids of the caller's or without.
ItemIdUniqueness ==
  file.kind = "doc" => \A i \in DOMAIN file.lists : Distinct(file.lists[i].items)

\* C23: item id stability. updateList with items stores every surviving item
\* that carries an id under exactly that id, and every surviving item without
\* one under a freshly minted id: one that no item of the document had and no
\* other item of the payload has. An updateList without items leaves the ids
\* of the items as they were.
IdStability ==
  \A k \in DOMAIN ops :
    (ops[k].kind = "updateList" /\ ops[k].st = "fulfilled" /\ ops[k].res.tag = "list") =>
      LET before == SerialDocument(k - 1)
          prior == Get(ListOf(before, ops[k].id))
          now == ops[k].res.val.items
          stored == Get(ListOf(file, ops[k].id)).items
      IN  /\ LastWriter(k) => stored = now
          /\ IF IsDefined(ops[k].payload.items)
               THEN LET kept == Surviving(Get(ops[k].payload.items))
                    IN  /\ Len(now) = Len(kept)
                        /\ \A i \in DOMAIN now :
                             IF IsDefined(kept[i].id)
                               THEN now[i].id = Get(kept[i].id)
                               ELSE /\ now[i].id \notin ItemIdsIn(before)
                                    /\ \A j \in DOMAIN kept :
                                         IsDefined(kept[j].id) => now[i].id # Get(kept[j].id)
                                    /\ \A j \in DOMAIN now : now[j].id = now[i].id => j = i
               ELSE /\ Len(now) = Len(prior.items)
                    /\ \A i \in DOMAIN now : now[i].id = prior.items[i].id

\* An update stored one item under the id it came with, that of the list's
\* first item, and the other, which came without, under a new id.
IdStabilityWitness ==
  \E k \in DOMAIN ops :
    /\ ops[k].kind = "updateList" /\ ops[k].st = "fulfilled" /\ ops[k].wrote
    /\ ops[k].res.tag = "list"
    /\ IsDefined(ops[k].payload.items)
    /\ Len(ops[k].res.val.items) = 2
    /\ Get(ops[k].payload.items)[1].id = Some(ItemId(1))
    /\ Get(ops[k].payload.items)[2].id = Undefined
    /\ ops[k].res.val.items[1].id = ItemId(1)
    /\ ops[k].res.val.items[2].id \notin {ItemId(1), ItemId(2)}
    /\ Get(ListOf(file, 1)).items = ops[k].res.val.items

\* The document last persisted: the file, or, while a mutation is rewriting
\* it, what that mutation found.
Persisted ==
  IF \E k \in DOMAIN ops : ops[k].pc = "writeData"
    THEN ops[CHOOSE k \in DOMAIN ops : ops[k].pc = "writeData"].before
    ELSE Document(file)

\* Every list of old that new still has keeps its spins as they were, or has
\* one new spin before them and, the history being full, has lost the last.
SpinsKept(old, new) ==
  \A i \in DOMAIN old.lists :
    IsDefined(ListOf(new, old.lists[i].id)) =>
      LET s == old.lists[i].spins
          t == Get(ListOf(new, old.lists[i].id)).spins
      IN  \/ t = s
          \/ /\ Len(t) = Min(Len(s) + 1, MAX_SPIN_HISTORY)
             /\ \A j \in 2 .. Len(t) : t[j] = s[j - 1]

\* The recordSpin calls that have returned a spin.
SpinsMade == { k \in DOMAIN ops : ops[k].st = "fulfilled" /\ ops[k].res.tag = "spin" }

\* C24: SpinResult immutability. The itemId and label of a spin are the id
\* and label that the chosen item had when the spin was made, and a persisted
\* spin is never changed by a later operation, an updateList that renames or
\* removes its item included: from one persisted document to the next the
\* spins of a list stay as they are, but for a new one put first and the last
\* one evicted from a full history, or go with their list.
SpinSnapshot ==
  \A k \in SpinsMade :
    LET list == Get(ListOf(SerialDocument(k - 1), ops[k].id))
        spin == ops[k].res.val
    IN  /\ \E i \in DOMAIN list.items :
             /\ Cumulative(list.items, i - 1) <= ops[k].draw
             /\ ops[k].draw < Cumulative(list.items, i)
             /\ spin.itemId = list.items[i].id
             /\ spin.label = list.items[i].label
        /\ LastWriter(k) => Get(ListOf(file, ops[k].id)).spins[1] = spin
SpinResultImmutability ==
  /\ []SpinSnapshot
  /\ [][file'.kind = "doc" => SpinsKept(Persisted, file')]_vars

\* A spin was recorded, an updateList then replaced the items of the list,
\* and the spin is in the history with the id and label of an item that the
\* list no longer has.
SpinResultImmutabilityWitness ==
  \E k \in SpinsMade : \E u \in DOMAIN ops :
    /\ k < u /\ ops[u].kind = "updateList" /\ ops[u].id = ops[k].id
    /\ ops[u].st = "fulfilled" /\ ops[u].wrote /\ IsDefined(ops[u].payload.items)
    /\ file.kind = "doc"
    /\ LET list == Get(ListOf(file, ops[k].id))
       IN  /\ list.spins[1] = ops[k].res.val
           /\ Len(list.spins) = MAX_SPIN_HISTORY
           /\ \A i \in DOMAIN list.items :
                list.items[i].id # ops[k].res.val.itemId

\* Every list of old that new still has was created at the same instant.
CreatedAtKept(old, new) ==
  \A i \in DOMAIN old.lists :
    IsDefined(ListOf(new, old.lists[i].id)) =>
      Get(ListOf(new, old.lists[i].id)).createdAt = old.lists[i].createdAt

\* C25: createdAt is immutable. From one persisted document to the next, a
\* list that is in both has the same createdAt, whichever operation wrote
\* the second and whichever list it was about.
CreatedAtImmutable ==
  [][file'.kind = "doc" => CreatedAtKept(Persisted, file')]_vars

\* A list created in this run was then changed at a later instant by an
\* updateList or a recordSpin, and still has the createdAt it was returned
\* with.
CreatedAtImmutableWitness ==
  \E c, u \in DOMAIN ops :
    /\ c < u
    /\ ops[c].kind = "createList" /\ ops[c].st = "fulfilled"
    /\ ops[u].kind \in {"updateList", "recordSpin"}
    /\ ops[u].st = "fulfilled" /\ ops[u].wrote
    /\ ops[u].id = ops[c].res.val.id
    /\ ops[u].t > ops[c].res.val.createdAt
    /\ file.kind = "doc"
    /\ Get(ListOf(file, ops[u].id)).createdAt = ops[c].res.val.createdAt
    /\ Get(ListOf(file, ops[u].id)).updatedAt = ops[u].t

\* Every list of old that new still has was not updated earlier in new than
\* in old.
UpdatedAtKept(old, new) ==
  \A i \in DOMAIN old.lists :
    IsDefined(ListOf(new, old.lists[i].id)) =>
      Get(ListOf(new, old.lists[i].id)).updatedAt >= old.lists[i].updatedAt

\* The updateList and recordSpin calls that changed a list.
Touching ==
  { k \in DOMAIN ops :
      /\ ops[k].kind \in {"updateList", "recordSpin"}
      /\ ops[k].st = "fulfilled" /\ ops[k].wrote }

\* C26: updatedAt progression. A successful updateList or recordSpin sets the
\* updatedAt of its list to the instant it read from the clock while it ran
\* (an instant between the clock's value before it and the clock's value
\* now); the clock never going back, the updatedAt of a list never decreases
\* from one persisted document to the next, and is never earlier than its
\* createdAt.
UpdatedAtSet ==
  /\ \A k \in Touching :
       /\ ops[k].t <= clock
       /\ \A j \in 1 .. (k - 1) : ops[j].t <= ops[k].t
       /\ ops[k].kind = "updateList" => ops[k].res.val.updatedAt = ops[k].t
       /\ ops[k].kind = "recordSpin" => ops[k].res.val.timestamp = ops[k].t
       /\ LastWriter(k) => Get(ListOf(file, ops[k].id)).updatedAt = ops[k].t
  /\ file.kind = "doc" =>
       \A i \in DOMAIN file.lists : file.lists[i].updatedAt >= file.lists[i].createdAt
UpdatedAtProgression ==
  /\ []UpdatedAtSet
  /\ [][file'.kind = "doc" => UpdatedAtKept(Persisted, file')]_vars

\* A recordSpin and then an updateList changed the same list, the second at a
\* later instant than the first, and the list is persisted with that instant.
UpdatedAtProgressionWitness ==
  \E k, u \in Touching :
    /\ k < u /\ ops[k].id = ops[u].id
    /\ ops[k].kind = "recordSpin" /\ ops[u].kind = "updateList"
    /\ ops[k].t < ops[u].t
    /\ file.kind = "doc"
    /\ Get(ListOf(file, ops[u].id)).updatedAt = ops[u].t
    /\ Get(ListOf(file, ops[u].id)).createdAt < ops[u].t

\* C27: termination. Every file-system call completing, each submitted
\* operation completes in the end, with a value or the not-found sentinel
\* (fulfilled) or with a failure (rejected), however many operations are
\* queued before it and whether or not they fail; so does each read.
Termination ==
  /\ \A k \in 1 .. MaxOps :
       (Len(ops) >= k) ~> (Len(ops) >= k /\ ops[k].st \in Settled)
  /\ \A call \in Reads : (call \in reads) ~> (call \notin reads)
  /\ [](\A k \in DOMAIN ops :
          /\ ops[k].st = "fulfilled" => ops[k].err = "none"
          /\ ops[k].st = "rejected" => ops[k].err # "none" /\ ops[k].res = NoResult)

\* The first operation failed on a file-system error and the last one,
\* queued behind it, has completed.
TerminationWitness ==
  /\ Len(ops) = MaxOps
  /\ ops[1].st = "rejected" /\ ops[1].fault # "none"
  /\ ops[MaxOps].st \in Settled
  /\ reads = {}

\* What the k-th operation gives its caller when it alone runs on the
\* document that the operations before it left.
OwnOutcome(k) ==
  LET op == ops[k]
      r == readDataFile(SerialDocument(k - 1))
      out == operation(op, r.data)
  IN  IF op.err = "INIT" THEN op.st = "rejected" /\ dataFileInitialization = "rejected"
      ELSE IF op.fault # "none" THEN op.st = "rejected" /\ op.err = "EIO"
      ELSE IF r.err # "none" THEN op.st = "rejected" /\ op.err = r.err
      ELSE IF out.err # "none" THEN op.st = "rejected" /\ op.err = out.err
      ELSE op.st = "fulfilled" /\ op.res = out.res

\* The createList calls that have been invoked: each mints one list id.
Invoked(kind) == { k \in DOMAIN ops : ops[k].kind = kind /\ ops[k].st # "queued" }

\* C28: exactly-once execution. Every operation given to runSerial is invoked
\* once: it is not run again once it runs or has completed (its outcome stays
\* what it was), each invoked createList has minted one list id, and an
\* operation whose predecessors have all completed is invoked next, whether
\* they succeeded or failed; what its caller receives is its own result or
\* failure, that of running it alone on the document left by the operations
\* before it.
OwnResult ==
  /\ \A k \in DOMAIN ops : ops[k].st \in Settled => OwnOutcome(k)
  /\ minted.list = MintedIn(hist.file0).list + Cardinality(Invoked("createList"))
  /\ \A k \in DOMAIN ops :
       (ops[k].st = "queued" /\ \A i \in 1 .. (k - 1) : ops[i].st \in Settled)
         => ENABLED Start(k)
ExactlyOnce ==
  /\ []OwnResult
  /\ [][\A k \in DOMAIN ops :
          /\ ops[k].st # "queued" => ops'[k].st # "queued"
          /\ ops[k].st \in Settled => ops'[k] = ops[k]]_vars

\* An operation failed and the createList queued behind it ran, once, and
\* returned the list it made.
ExactlyOnceWitness ==
  /\ Len(ops) >= 2
  /\ ops[1].st = "rejected"
  /\ ops[2].kind = "createList" /\ ops[2].st = "fulfilled"
  /\ ops[2].res.tag = "list"
  /\ Cardinality(Invoked("createList")) = minted.list - MintedIn(hist.file0).list
  /\ Cardinality(Invoked("createList")) >= 1

\* C29: the fallback is unreachable. When recordSpin has passed its two
\* NO_ITEMS checks (an item, a total weight T > 0), the weights being
\* integers and the draw in 0 .. T-1, the loop itself selects an item:
\* selected is defined, and chosen is that item, not the last one by default.
FallbackUnreachable ==
  \A k \in Drawn :
    LET t == ops[k].draw
        i == selected(DrawItems, t)
    IN  /\ Len(DrawItems) > 0
        /\ totalWeight(DrawItems) > 0
        /\ t \in 0 .. (totalWeight(DrawItems) - 1)
        /\ i \in DOMAIN DrawItems
        /\ t < Cumulative(DrawItems, i)
        /\ ops[k].res.val.itemId = DrawItems[i].id

\* The largest draw, on a list whose last item has weight 0: the loop selected
\* an item before the last, which the fallback would have chosen.
FallbackUnreachableWitness ==
  \E k \in Drawn :
    /\ Len(DrawItems) >= 2
    /\ DrawItems[Len(DrawItems)].weight = 0
    /\ ops[k].draw = totalWeight(DrawItems) - 1
    /\ selected(DrawItems, ops[k].draw) # 0
    /\ selected(DrawItems, ops[k].draw) < Len(DrawItems)
    /\ ops[k].res.val.itemId # DrawItems[Len(DrawItems)].id

\* What the operation may change from the document old to the document new
\* that it writes. updateList and recordSpin: the lists are as many, each in
\* its place under its id, and those with another id are as they were.
\* createList: the lists of old, as they were and where they were, and then
\* the new list. deleteList: the lists of old with another id, in their order.
FrameOf(op, old, new) ==
  CASE op.kind \in {"updateList", "recordSpin"} ->
         /\ Len(new.lists) = Len(old.lists)
         /\ \A i \in DOMAIN old.lists :
              /\ new.lists[i].id = old.lists[i].id
              /\ old.lists[i].id # op.id => new.lists[i] = old.lists[i]
    [] op.kind = "createList" ->
         /\ Len(new.lists) = Len(old.lists) + 1
         /\ \A i \in DOMAIN old.lists : new.lists[i] = old.lists[i]
         /\ new.lists[Len(new.lists)] = op.res.val
    [] op.kind = "deleteList" ->
         /\ \A i \in DOMAIN new.lists : new.lists[i].id # op.id
         /\ \E keep \in SUBSET DOMAIN old.lists :
              /\ \A i \in DOMAIN old.lists : i \in keep <=> old.lists[i].id # op.id
              /\ Len(new.lists) = Cardinality(keep)
              /\ \A i \in keep :
                   new.lists[Cardinality({j \in keep : j <= i})] = old.lists[i]

InitializationFirst ==
  [][/\ \A k \in DOMAIN ops :
          /\ (ops[k].pc = "read" /\ ops'[k].pc # "read" /\ ops'[k].err # "INIT")
               => dataFileInitialization = "fulfilled"
          /\ (~ops[k].wrote /\ ops'[k].wrote) => dataFileInitialization = "fulfilled"
     /\ \A call \in reads : call \notin reads' => dataFileInitialization \in Settled
     /\ file' # file =>
          \/ dataFileInitialization = "fulfilled"
          \/ /\ dataFileInitialization = "write" /\ dataFileInitialization' = "fulfilled"
             /\ file = Absent /\ file' = DocFile(<< >>)
             /\ NoOpWrote
             /\ \A k \in DOMAIN ops : ops[k].pc \in {"queued", "read"}]_vars

\* The initialization created the file and a mutation, which had waited for
\* it, has then written its document there.
InitializationFirstWitness ==
  /\ hist.file0 = Absent
  /\ hist.initWrites = 1
  /\ dataFileInitialization = "fulfilled"
  /\ \E k \in DOMAIN ops : ops[k].st = "fulfilled" /\ ops[k].wrote
  /\ file.kind = "doc" /\ Len(file.lists) >= 1

\* C32: sticky initialization failure. Once the initialization has failed,
\* the rejected handle is kept and the initialization is not run again;
\* every operation that completes, and every read that is answered, fails
\* with the handle's failure, no operation has got the file's content or
\* written, and the file is what it was at the start.
InitializationFailed ==
  dataFileInitialization = "rejected" =>
    /\ hist.initRuns = 1
    /\ hist.initWrites = 0
    /\ file = hist.file0
    /\ \A k \in DOMAIN ops :
         /\ ops[k].pc \in {"queued", "read", "done"}
         /\ ~ops[k].wrote
         /\ ops[k].st \in Settled =>
              /\ ops[k].st = "rejected" /\ ops[k].err = "INIT"
              /\ ops[k].res = NoResult /\ ops[k].unchanged
    /\ \A call \in reads : Answer(call) = [st |-> "rejected", err |-> "INIT", res |-> NoResult]
StickyInitializationFailure ==
  /\ []InitializationFailed
  /\ [][dataFileInitialization = "rejected" =>
          /\ dataFileInitialization' = "rejected"
          /\ hist'.initRuns = hist.initRuns
          /\ file' = file]_vars

\* The initialization failed; a mutation failed with that failure, and so
\* did the mutation run after it, which called ensureDataFile once the handle
\* was rejected; a read waits for the same answer.
StickyInitializationFailureWitness ==
  /\ dataFileInitialization = "rejected"
  /\ Len(ops) >= 2
  /\ ops[1].err = "INIT" /\ ops[2].err = "INIT"
  /\ ops[1].kind # ops[2].kind
  /\ reads # {}
  /\ hist.initRuns = 1
====
